---- MODULE Spec2Model ----
(***************************************************************************)
(* s3fs-go: an HTTP object store that maps PUT/GET/DELETE on               *)
(* /<bucket>/<key...> to files under a storage root (src/main.go).         *)
(*                                                                         *)
(* Strings are sequences of one-character strings, so that TrimPrefix,     *)
(* SplitN, filepath.Join, filepath.Clean and strings.HasPrefix are         *)
(* computed character by character as the Go code computes them.           *)
(***************************************************************************)
EXTENDS Integers, Sequences, FiniteSets, TLC

VARIABLES storageRootDir, fs, req, resp, ops, lastWrite, probe, cfile, procs

vars == <<storageRootDir, fs, req, resp, ops, lastWrite, probe, cfile, procs>>

None == "none"

\* ------------------------------------------------------------------ bounds

\* Largest number of "/"-separated segments after the leading "/" of a request path.
MaxSegs == 3

\* Largest number of bytes of an uploaded body.
MaxBodyLen == 1

\* ----------------------------------------------------------------- strings

Sep == "/"

\* strings.HasPrefix(s, prefix)
HasPrefix(s, prefix) ==
    /\ Len(prefix) <= Len(s)
    /\ SubSeq(s, 1, Len(prefix)) = prefix

\* strings.TrimPrefix(s, prefix)
TrimPrefix(s, prefix) ==
    IF HasPrefix(s, prefix) THEN SubSeq(s, Len(prefix) + 1, Len(s)) ELSE s

\* Index of the first "/" of s, 0 when there is none (strings.Index).
IndexSep(s) ==
    IF \E i \in 1..Len(s) : s[i] = Sep
    THEN CHOOSE i \in 1..Len(s) : s[i] = Sep /\ \A j \in 1..(i - 1) : s[j] # Sep
    ELSE 0

\* strings.SplitN(s, "/", 2): one part when s holds no "/", else the text before
\* the first "/" and everything after it.
SplitN2(s) ==
    LET i == IndexSep(s) IN
    IF i = 0 THEN <<s>> ELSE <<SubSeq(s, 1, i - 1), SubSeq(s, i + 1, Len(s))>>

\* strings.Split(s, "/"): every "/"-separated element, empty ones included.
RECURSIVE Split(_)
Split(s) ==
    LET i == IndexSep(s) IN
    IF i = 0 THEN <<s>> ELSE <<SubSeq(s, 1, i - 1)>> \o Split(SubSeq(s, i + 1, Len(s)))

\* strings.Join(elems, "/")
RECURSIVE JoinSep(_)
JoinSep(elems) ==
    IF Len(elems) = 0 THEN <<>>
    ELSE IF Len(elems) = 1 THEN elems[1]
    ELSE elems[1] \o <<Sep>> \o JoinSep(Tail(elems))

Dot == <<".">>
DotDot == <<".", ".">>

\* filepath.IsAbs on unix
IsAbs(path) == HasPrefix(path, <<Sep>>)

\* The element stack filepath.Clean keeps while it scans the elements of a path:
\* empty and "." elements are dropped, ".." removes the element before it, is
\* dropped at the top of a rooted path and is kept at the top of a relative one.
RECURSIVE CleanElems(_, _, _)
CleanElems(elems, rooted, out) ==
    IF Len(elems) = 0 THEN out
    ELSE LET e == Head(elems)
             rest == Tail(elems)
         IN  IF e = <<>> \/ e = Dot THEN CleanElems(rest, rooted, out)
             ELSE IF e = DotDot
                  THEN IF Len(out) > 0 /\ out[Len(out)] # DotDot
                       THEN CleanElems(rest, rooted, SubSeq(out, 1, Len(out) - 1))
                       ELSE IF rooted THEN CleanElems(rest, rooted, out)
                       ELSE CleanElems(rest, rooted, Append(out, e))
                  ELSE CleanElems(rest, rooted, Append(out, e))

\* filepath.Clean(path) on unix
Clean(path) ==
    IF path = <<>> THEN Dot
    ELSE LET rooted == IsAbs(path)
             out == CleanElems(Split(path), rooted, <<>>)
         IN  IF rooted THEN <<Sep>> \o JoinSep(out)
             ELSE IF out = <<>> THEN Dot ELSE JoinSep(out)

\* filepath.Join(elem...): the elements from the first non-empty one on, joined
\* with "/" and cleaned; "" when every element is empty.
RECURSIVE Join(_)
Join(elems) ==
    IF Len(elems) = 0 THEN <<>>
    ELSE IF Head(elems) # <<>> THEN Clean(JoinSep(elems))
    ELSE Join(Tail(elems))

\* os.Getwd(): the working directory of the server process.
Getwd == <<Sep, "w">>

\* filepath.Abs(path) on unix
Abs(path) == IF IsAbs(path) THEN Clean(path) ELSE Join(<<Getwd, path>>)

\* filepath.Dir(path) of a cleaned absolute path
Dir(path) ==
    LET elems == CleanElems(Split(path), TRUE, <<>>) IN
    IF Len(elems) = 0 THEN <<Sep>>
    ELSE <<Sep>> \o JoinSep(SubSeq(elems, 1, Len(elems) - 1))

\* -------------------------------------------------------------- filesystem
\* The filesystem the process runs on: a function from cleaned absolute paths
\* to nodes. Every node's parent is a directory of the same function.

DirNode == [kind |-> "dir", data |-> <<>>]
FileNode(data) == [kind |-> "file", data |-> data]

RootPath == <<Sep>>

\* The elements of a cleaned absolute path, and the path of a list of elements.
Elems(path) == CleanElems(Split(path), TRUE, <<>>)
PathOf(elems) == <<Sep>> \o JoinSep(elems)

\* The proper ancestors of a cleaned absolute path, from "/" down, and the path
\* itself last.
Chain(path) ==
    LET es == Elems(path) IN [k \in 1..(Len(es) + 1) |-> PathOf(SubSeq(es, 1, k - 1))]

IsDir(f, path) == path \in DOMAIN f /\ f[path].kind = "dir"
IsFile(f, path) == path \in DOMAIN f /\ f[path].kind = "file"

\* Path lookup of the kernel over the proper ancestors of path: the first
\* ancestor that is missing gives ENOENT, the first that is a regular file
\* gives ENOTDIR.
LookupErr(f, path) ==
    LET ch == Chain(path)
        bad == {k \in 1..(Len(ch) - 1) : ~IsDir(f, ch[k])}
    IN  IF bad = {} THEN None
        ELSE LET k == CHOOSE i \in bad : \A j \in bad : i <= j
             IN  IF ch[k] \in DOMAIN f THEN "ENOTDIR" ELSE "ENOENT"

\* os.Stat(path): the error, or None.
StatErr(f, path) ==
    LET e == LookupErr(f, path) IN
    IF e # None THEN e
    ELSE IF path \notin DOMAIN f THEN "ENOENT"
    ELSE None

\* os.MkdirAll(path): nothing to do when path is a directory. Otherwise the
\* parents are made first, from the top down, and then path itself; a regular
\* file met on the way (or at path) stops it with ENOTDIR before anything is made.
MkdirAll(f, path) ==
    LET ch == Chain(path) IN
    IF \E k \in 1..Len(ch) : IsFile(f, ch[k])
    THEN [err |-> "ENOTDIR", fs |-> f]
    ELSE [err |-> None,
          fs |-> [q \in DOMAIN f \cup {ch[k] : k \in 1..Len(ch)} |->
                    IF q \in DOMAIN f THEN f[q] ELSE DirNode]]

\* A Create that opens without O_TRUNC: an existing file keeps its bytes.
CreateNoTrunc(f, path) ==
    LET e == LookupErr(f, path) IN
    IF e # None THEN [err |-> e, fs |-> f]
    ELSE IF IsDir(f, path) THEN [err |-> "EISDIR", fs |-> f]
    ELSE IF IsFile(f, path) THEN [err |-> None, fs |-> f]
    ELSE [err |-> None, fs |-> (path :> FileNode(<<>>)) @@ f]

\* os.Create(path): open with O_RDWR|O_CREATE|O_TRUNC. An existing regular file
\* is truncated, a missing one is created empty.
Create(f, path) ==
    LET e == LookupErr(f, path) IN
    IF e # None THEN [err |-> e, fs |-> f]
    ELSE IF IsDir(f, path) THEN [err |-> "EISDIR", fs |-> f]
    ELSE [err |-> None, fs |-> (path :> FileNode(<<>>)) @@ f]

\* io.Copy(f, r.Body) into the file just opened: the body is written from
\* offset 0 on, over whatever the file holds there.
CopyToFile(f, path, body) ==
    LET old == f[path].data IN
    (path :> FileNode(body \o SubSeq(old, Len(body) + 1, Len(old)))) @@ f

\* os.Open(path): the error, or None. A directory opens like a file.
OpenErr(f, path) == StatErr(f, path)

\* io.Copy(w, f) from an opened file: the bytes read. Reading a directory fails
\* with EISDIR before any byte is read.
CopyFromFile(f, path) == IF IsFile(f, path) THEN f[path].data ELSE <<>>

\* Whether directory path holds an entry: every node's parent is a node, so it
\* does when some node lies below it.
HasChildren(f, path) ==
    \E q \in DOMAIN f :
        /\ q # path
        /\ HasPrefix(q, IF path = RootPath THEN path ELSE path \o <<Sep>>)

\* os.Remove(path): unlink, then rmdir. A regular file and an empty directory
\* are removed; a directory with entries is not (ENOTEMPTY), nor is "/" (EBUSY).
Remove(f, path) ==
    LET e == StatErr(f, path) IN
    IF e # None THEN [err |-> e, fs |-> f]
    ELSE IF IsDir(f, path) /\ path = RootPath THEN [err |-> "EBUSY", fs |-> f]
    ELSE IF IsDir(f, path) /\ HasChildren(f, path) THEN [err |-> "ENOTEMPTY", fs |-> f]
    ELSE [err |-> None, fs |-> [q \in DOMAIN f \ {path} |-> f[q]]]

\* os.IsNotExist(err)
IsNotExist(err) == err = "ENOENT"

\* ---------------------------------------------------------------- resolver

\* A resolver that tests the plain string prefix, without the separator.
sanitizePathPlainPrefix(root, bucket, key) ==
    LET joined == Join(<<root, bucket, key>>)
        cleaned == Clean(joined)
        absRoot == Abs(root)
        absTarget == Abs(cleaned)
    IN  IF ~HasPrefix(absTarget, absRoot)
        THEN [err |-> "invalid path: path traversal detected", path |-> <<>>]
        ELSE [err |-> None, path |-> absTarget]

\* sanitizePath(bucket, key) under storage root `root`.
sanitizePath(root, bucket, key) ==
    LET joined == Join(<<root, bucket, key>>)
        cleaned == Clean(joined)
        absRoot == Abs(root)
        absTarget == Abs(cleaned)
    IN  IF ~HasPrefix(absTarget, absRoot \o <<Sep>>) /\ absTarget # absRoot
        THEN [err |-> "invalid path: path traversal detected", path |-> <<>>]
        ELSE [err |-> None, path |-> absTarget]

\* ------------------------------------------------------------------ inputs

\* The storage roots the server is started with (os.Args[1]).
Roots == {<<Sep>>, <<Sep, "r">>}

\* The elements request paths are built from.
Segs == {<<>>, DotDot, <<"a">>}

\* Every sequence of at most n elements of S.
RECURSIVE SeqsUpTo(_, _)
SeqsUpTo(S, n) ==
    IF n = 0 THEN {<<>>}
    ELSE LET shorter == SeqsUpTo(S, n - 1)
         IN  shorter \cup {Append(q, x) : q \in shorter, x \in S}

\* Request paths that leave the root for a sibling directory whose name starts
\* with the root's name.
SiblingPaths ==
    { <<Sep, ".", ".", Sep, "r", "2">>,
      <<Sep, "a", Sep, ".", ".", Sep, ".", ".", Sep, "r", "2", Sep, "a">> }

\* r.URL.Path of the requests served.
Paths == {<<Sep>> \o JoinSep(q) : q \in SeqsUpTo(Segs, MaxSegs)} \cup SiblingPaths

\* The bytes of a request body.
Bytes == {1}
Bodies == SeqsUpTo(Bytes, MaxBodyLen)

\* Methods other than PUT, GET and DELETE.
OtherMethods == {"POST", "HEAD"}

\* ---------------------------------------------------------------- handlers
\* A request is [method, path, body]; a handler's outcome is the response
\* status, the response body, the filesystem it leaves and the filesystem calls
\* it made, in order, each with the path it was given.

StatusOK == 200
StatusNoContent == 204
StatusBadRequest == 400
StatusNotFound == 404
StatusMethodNotAllowed == 405
StatusInternalServerError == 500

\* http.Error(w, msg, code) and w.WriteHeader(code): a response without object bytes.
Reply(code, f, calls) == [status |-> code, body |-> <<>>, fs |-> f, ops |-> calls]

\* The bucket/key split the three handlers share: strip one leading "/", split
\* once at the first "/"; an empty bucket or a path without a second part is
\* refused.
ParseErr(path) ==
    LET parts == SplitN2(TrimPrefix(path, <<Sep>>)) IN
    IF Len(parts) < 1 \/ parts[1] = <<>> THEN "Bad Request: missing bucket"
    ELSE IF Len(parts) = 2 THEN None
    ELSE "Bad Request: missing key"

Bucket(path) == SplitN2(TrimPrefix(path, <<Sep>>))[1]
Key(path) == SplitN2(TrimPrefix(path, <<Sep>>))[2]

\* What the shared prologue of the handlers yields for a request path: the
\* answer of the bucket/key split, then that of sanitizePath.
Prologue(root, path) ==
    IF ParseErr(path) # None THEN [err |-> ParseErr(path), path |-> <<>>]
    ELSE sanitizePath(root, Bucket(path), Key(path))

\* Prologue tabulated over the request paths and roots of the model.
PrologueTable == [root \in Roots |-> [path \in Paths |-> Prologue(root, path)]]
Resolve(root, path) == PrologueTable[root][path]

\* uploadHandler: PUT /<bucket>/<key...>
uploadHandler(root, f, r) ==
    IF r.method # "PUT" THEN Reply(StatusMethodNotAllowed, f, <<>>)
    ELSE LET target == Resolve(root, r.path) IN
         IF target.err # None THEN Reply(StatusBadRequest, f, <<>>)
         ELSE LET targetPath == target.path
                  parentDir == Dir(targetPath)
                  made == MkdirAll(f, parentDir)
                  calls1 == <<<<"MkdirAll", parentDir>>>>
              IN  IF made.err # None
                  THEN Reply(StatusInternalServerError, made.fs, calls1)
                  ELSE LET created == Create(made.fs, targetPath)
                           calls2 == Append(calls1, <<"Create", targetPath>>)
                       IN  IF created.err # None
                           THEN Reply(StatusInternalServerError, created.fs, calls2)
                           ELSE Reply(StatusNoContent,
                                      CopyToFile(created.fs, targetPath, r.body),
                                      calls2)

\* downloadHandler: GET /<bucket>/<key...>
downloadHandler(root, f, r) ==
    IF r.method # "GET" THEN Reply(StatusMethodNotAllowed, f, <<>>)
    ELSE LET target == Resolve(root, r.path) IN
         IF target.err # None THEN Reply(StatusBadRequest, f, <<>>)
         ELSE LET targetPath == target.path
                  calls == <<<<"Open", targetPath>>>>
              IN  IF OpenErr(f, targetPath) # None
                  THEN IF IsNotExist(OpenErr(f, targetPath))
                       THEN Reply(StatusNotFound, f, calls)
                       ELSE Reply(StatusInternalServerError, f, calls)
                  ELSE [status |-> StatusOK, body |-> CopyFromFile(f, targetPath),
                        fs |-> f, ops |-> calls]

\* deleteHandler: DELETE /<bucket>/<key...>
deleteHandler(root, f, r) ==
    IF r.method # "DELETE" THEN Reply(StatusMethodNotAllowed, f, <<>>)
    ELSE LET target == Resolve(root, r.path) IN
         IF target.err # None THEN Reply(StatusBadRequest, f, <<>>)
         ELSE LET targetPath == target.path
                  removed == Remove(f, targetPath)
                  calls == <<<<"Remove", targetPath>>>>
              IN  IF removed.err # None
                  THEN IF IsNotExist(removed.err)
                       THEN Reply(StatusNoContent, removed.fs, calls)
                       ELSE Reply(StatusInternalServerError, removed.fs, calls)
                  ELSE Reply(StatusNoContent, removed.fs, calls)

\* A dispatcher that looks at the path before the method.
ServeHTTPPathFirst(root, f, r) ==
    IF Resolve(root, r.path).err # None THEN Reply(StatusBadRequest, f, <<>>)
    ELSE CASE r.method = "PUT" -> uploadHandler(root, f, r)
           [] r.method = "GET" -> downloadHandler(root, f, r)
           [] r.method = "DELETE" -> deleteHandler(root, f, r)
           [] OTHER -> Reply(StatusMethodNotAllowed, f, <<>>)

\* The catch-all handler main registers: dispatch on the method alone.
ServeHTTP(root, f, r) ==
    CASE r.method = "PUT" -> uploadHandler(root, f, r)
      [] r.method = "GET" -> downloadHandler(root, f, r)
      [] r.method = "DELETE" -> deleteHandler(root, f, r)
      [] OTHER -> Reply(StatusMethodNotAllowed, f, <<>>)

\* main: os.MkdirAll(storageRootDir) on a filesystem that holds only "/".
BootFs(root) == MkdirAll((RootPath :> DirNode), Abs(root)).fs

NoReq == [method |-> None, path |-> <<>>, body |-> <<>>]
NoResp == [status |-> 0, body |-> <<>>]
NoProbe == [done |-> FALSE, bucket |-> <<>>, key |-> <<>>, err |-> None, path |-> <<>>]
NoFile == [entry |-> 0, inodes |-> <<>>]
NoWrite == [valid |-> FALSE, method |-> None, path |-> <<>>, body |-> <<>>, status |-> 0]

\* -------------------------------------------------------------- vocabulary

HandledMethods == {"PUT", "GET", "DELETE"}

AbsRoot == Abs(storageRootDir)

\* path is dir itself or lies below it, element by element.
Beneath(dir, path) ==
    LET d == Elems(dir)
        q == Elems(path)
    IN  Len(d) <= Len(q) /\ SubSeq(q, 1, Len(d)) = d

\* The request path after one leading "/" is dropped.
Stripped(path) == IF Len(path) > 0 /\ path[1] = Sep THEN Tail(path) ELSE path

\* The request path names no bucket, or no key, or an empty key.
MissingBucketOrKey(path) ==
    LET es == Split(Stripped(path)) IN
    \/ es[1] = <<>>
    \/ Len(es) = 1
    \/ Len(es) = 2 /\ es[2] = <<>>

\* The request path is /<bucket>/<key> where the bucket and every "/"-separated
\* element of the key is a name: not empty, not "." and not "..".
PlainPath(path) ==
    LET es == Split(path) IN
    /\ Len(es) >= 3
    /\ es[1] = <<>>
    /\ \A i \in 2..Len(es) : es[i] \notin {<<>>, Dot, DotDot}

\* The key of a plain request path holds a further "/".
NestedKey(path) == PlainPath(path) /\ Len(Split(path)) >= 4

\* The file of the object a plain request path names: root/bucket/key.
ObjectFile(path) == PathOf(Elems(AbsRoot) \o Tail(Split(path)))

\* The lexically normalised absolute path of root/bucket/key for a request path
\* that names a bucket and a key.
NormalTarget(path) ==
    Abs(Clean(storageRootDir \o <<Sep>> \o Stripped(path)))

\* ------------------------------------------------------ sequential requests
\* Requests served one after another: a handler runs when no exchange is in
\* flight and leaves the request, its response and the filesystem calls it made,
\* in order, in req, resp and ops; Deliver hands the response to the client and
\* ends the exchange.
\* lastWrite is a history variable: the PUT answered 204, or the DELETE that got
\* as far as os.Remove (with its status), that was served last, as long as only
\* requests of other methods for the same path have followed it.

Init ==
    /\ storageRootDir \in Roots
    /\ fs = BootFs(storageRootDir)
    /\ req = NoReq
    /\ resp = NoResp
    /\ ops = <<>>
    /\ lastWrite = NoWrite
    /\ probe = NoProbe
    /\ cfile = NoFile
    /\ procs = <<>>

\* The exchange of request r and the handler's outcome out is recorded.
Exchange(r, out) ==
    /\ req.method = None
    /\ fs' = out.fs
    /\ req' = r
    /\ resp' = [status |-> out.status, body |-> out.body]
    /\ ops' = out.ops
    /\ lastWrite' = CASE r.method = "PUT" /\ out.status = StatusNoContent ->
                           [valid |-> TRUE, method |-> "PUT", path |-> r.path,
                            body |-> r.body, status |-> out.status]
                      [] r.method = "DELETE" /\ out.ops # <<>> ->
                           [valid |-> TRUE, method |-> "DELETE", path |-> r.path,
                            body |-> <<>>, status |-> out.status]
                      [] r.method \notin {"PUT", "DELETE"}
                            /\ lastWrite.valid /\ lastWrite.path = r.path -> lastWrite
                      [] OTHER -> NoWrite
    /\ UNCHANGED <<storageRootDir, probe, cfile, procs>>

\* The registered handler serves request r.
Serve(r) == Exchange(r, ServeHTTP(storageRootDir, fs, r))

Put == \E p \in Paths, b \in Bodies : Serve([method |-> "PUT", path |-> p, body |-> b])

Get == \E p \in Paths : Serve([method |-> "GET", path |-> p, body |-> <<>>])

Delete == \E p \in Paths : Serve([method |-> "DELETE", path |-> p, body |-> <<>>])

Other == \E m \in OtherMethods, p \in Paths : Serve([method |-> m, path |-> p, body |-> <<>>])

Deliver ==
    /\ req.method # None
    /\ req' = NoReq
    /\ resp' = NoResp
    /\ ops' = <<>>
    /\ UNCHANGED <<storageRootDir, fs, lastWrite, probe, cfile, procs>>

Next == Put \/ Get \/ Delete \/ Other \/ Deliver

Spec == Init /\ [][Next]_vars

\* ------------------------------------------------- well-formed requests only
\* The same server when no request path holds a "." or ".." element or an
\* empty element other than a trailing one: /, /<bucket>, /<bucket>/ and
\* /<bucket>/<key> with or without a trailing "/".

TidyPath(path) ==
    LET es == Split(path) IN
    /\ Len(es) >= 2
    /\ es[1] = <<>>
    /\ \A i \in 2..Len(es) : es[i] \notin {Dot, DotDot}
    /\ \A i \in 2..(Len(es) - 1) : es[i] # <<>>

TidyPaths == {p \in Paths : TidyPath(p)}

TidyPut ==
    \E p \in TidyPaths, b \in Bodies : Serve([method |-> "PUT", path |-> p, body |-> b])

TidyGet == \E p \in TidyPaths : Serve([method |-> "GET", path |-> p, body |-> <<>>])

TidyDelete == \E p \in TidyPaths : Serve([method |-> "DELETE", path |-> p, body |-> <<>>])

TidyOther ==
    \E m \in OtherMethods, p \in TidyPaths : Serve([method |-> m, path |-> p, body |-> <<>>])

NextTidy == TidyPut \/ TidyGet \/ TidyDelete \/ TidyOther \/ Deliver

SpecTidy == Init /\ [][NextTidy]_vars

\* ------------------------------------------------------ plain requests only
\* The same server when every request path is /<bucket>/<key> with a bucket
\* and key elements that are names.

PlainPaths == {p \in Paths : PlainPath(p)}

PlainPut ==
    \E p \in PlainPaths, b \in Bodies : Serve([method |-> "PUT", path |-> p, body |-> b])

PlainGet == \E p \in PlainPaths : Serve([method |-> "GET", path |-> p, body |-> <<>>])

PlainDelete == \E p \in PlainPaths : Serve([method |-> "DELETE", path |-> p, body |-> <<>>])

PlainOther ==
    \E m \in OtherMethods, p \in PlainPaths : Serve([method |-> m, path |-> p, body |-> <<>>])

NextPlain == PlainPut \/ PlainGet \/ PlainDelete \/ PlainOther \/ Deliver

SpecPlain == Init /\ [][NextPlain]_vars

\* ------------------------------------------------------ the resolver alone
\* sanitizePath called on its own, for a storage root and a bucket and key as
\* the handlers split them off a request path: probe holds the call served
\* last and its answer.

ResolveRoots == {<<Sep>>, <<Sep, "r">>, <<"r">>, <<".", Sep, "r">>}

\* Buckets are not empty and hold no "/".
ProbeBuckets == {<<"b">>, <<"b", "2">>, Dot, DotDot, <<"r", "2">>}

ProbeKeys ==
    { <<>>, <<"x">>, <<"b", Sep, "x">>, <<"x", Sep>>, <<Sep, "x">>, Dot,
      <<".", Sep, "x">>, DotDot, <<".", ".", Sep, "x">>,
      <<".", ".", Sep, ".", ".", Sep, "r", "2">>,
      <<".", ".", Sep, ".", ".", Sep, "r", Sep, "x">>,
      <<"x", Sep, ".", ".", Sep, ".", ".", Sep, ".", ".", Sep, "e">> }

InitResolve ==
    /\ storageRootDir \in ResolveRoots
    /\ fs = BootFs(storageRootDir)
    /\ req = NoReq
    /\ resp = NoResp
    /\ ops = <<>>
    /\ lastWrite = NoWrite
    /\ probe = NoProbe
    /\ cfile = NoFile
    /\ procs = <<>>

CallSanitizePath ==
    \E bucket \in ProbeBuckets, key \in ProbeKeys :
        LET got == sanitizePath(storageRootDir, bucket, key) IN
        /\ probe' = [done |-> TRUE, bucket |-> bucket, key |-> key,
                     err |-> got.err, path |-> got.path]
        /\ UNCHANGED <<storageRootDir, fs, req, resp, ops, lastWrite, cfile, procs>>

NextResolve == CallSanitizePath

SpecResolve == InitResolve /\ [][NextResolve]_vars

\* -------------------------------------------------------- concurrent requests
\* Two requests for the same object, each in its own goroutine, interleaved at
\* the filesystem calls their handlers make. cfile is the object's file: its
\* directory entry (an inode number, 0 when there is none) and the inodes made
\* so far; an open file keeps its inode after the entry is gone. procs holds,
\* per request, the method, the body, the handler's position, the inode and
\* offset of the file it opened, and the status it answered.

\* Largest number of bytes of a body in the concurrent runs.
MaxConcBody == 2

\* Bytes io.Copy hands to one write call (a 32 KiB buffer in the library).
ChunkLen == 1

ConcBytes == {1, 2}
ConcBodies == SeqsUpTo(ConcBytes, MaxConcBody)

ConcRequests ==
    {[method |-> "PUT", body |-> b] : b \in ConcBodies}
        \cup {[method |-> "DELETE", body |-> <<>>]}

Proc == {1, 2}

InitConc ==
    /\ storageRootDir = <<Sep, "r">>
    /\ fs = BootFs(storageRootDir)
    /\ req = NoReq
    /\ resp = NoResp
    /\ ops = <<>>
    /\ lastWrite = NoWrite
    /\ probe = NoProbe
    /\ cfile = NoFile
    /\ \E r1 \in ConcRequests, r2 \in ConcRequests :
          /\ "PUT" \in {r1.method, r2.method}
          /\ procs = [i \in Proc |->
                        LET r == IF i = 1 THEN r1 ELSE r2 IN
                        [method |-> r.method, body |-> r.body, pc |-> "start",
                         ino |-> 0, off |-> 0, status |-> 0]]

SeqUnchanged == UNCHANGED <<storageRootDir, fs, req, resp, ops, lastWrite, probe>>

\* uploadHandler up to os.MkdirAll: the parent directory is there or is made.
PutMkdirAll(i) ==
    /\ procs[i].method = "PUT" /\ procs[i].pc = "start"
    /\ procs' = [procs EXCEPT ![i].pc = "create"]
    /\ UNCHANGED cfile
    /\ SeqUnchanged

\* os.Create: the file of the entry is truncated, or a new empty one is linked;
\* the handler holds it open at offset 0.
PutCreate(i) ==
    /\ procs[i].pc = "create"
    /\ IF cfile.entry # 0
       THEN /\ cfile' = [cfile EXCEPT !.inodes[cfile.entry] = <<>>]
            /\ procs' = [procs EXCEPT ![i].pc = "copy", ![i].ino = cfile.entry]
       ELSE /\ cfile' = [entry |-> Len(cfile.inodes) + 1,
                         inodes |-> Append(cfile.inodes, <<>>)]
            /\ procs' = [procs EXCEPT ![i].pc = "copy",
                                      ![i].ino = Len(cfile.inodes) + 1]
    /\ SeqUnchanged

\* write(2) of chunk at offset off: the bytes there are replaced, the file grows
\* as needed, and a gap before off reads as zero bytes.
WriteAt(data, off, chunk) ==
    LET n == IF Len(data) > off + Len(chunk) THEN Len(data) ELSE off + Len(chunk) IN
    [k \in 1..n |->
        IF k > off /\ k <= off + Len(chunk) THEN chunk[k - off]
        ELSE IF k <= Len(data) THEN data[k]
        ELSE 0]

\* One round of io.Copy(f, r.Body): the next chunk of the body is written at
\* the handler's own offset.
PutWrite(i) ==
    /\ procs[i].pc = "copy"
    /\ procs[i].off < Len(procs[i].body)
    /\ LET p == procs[i]
           last == IF p.off + ChunkLen < Len(p.body) THEN p.off + ChunkLen ELSE Len(p.body)
           chunk == SubSeq(p.body, p.off + 1, last)
       IN  /\ cfile' = [cfile EXCEPT !.inodes[p.ino] = WriteAt(@, p.off, chunk)]
           /\ procs' = [procs EXCEPT ![i].off = last]
    /\ SeqUnchanged

\* io.Copy has drained the body: the handler answers 204 and closes the file.
PutRespond(i) ==
    /\ procs[i].pc = "copy"
    /\ procs[i].off = Len(procs[i].body)
    /\ procs' = [procs EXCEPT ![i].pc = "done", ![i].status = StatusNoContent]
    /\ UNCHANGED cfile
    /\ SeqUnchanged

\* deleteHandler: os.Remove unlinks the entry if there is one; 204 either way.
DeleteRemove(i) ==
    /\ procs[i].method = "DELETE" /\ procs[i].pc = "start"
    /\ cfile' = [cfile EXCEPT !.entry = 0]
    /\ procs' = [procs EXCEPT ![i].pc = "done", ![i].status = StatusNoContent]
    /\ SeqUnchanged

NextConc ==
    \E i \in Proc :
        \/ PutMkdirAll(i)
        \/ PutCreate(i)
        \/ PutWrite(i)
        \/ PutRespond(i)
        \/ DeleteRemove(i)

SpecConc == InitConc /\ [][NextConc]_vars

\* ------------------------------------------------------------- properties

NoDotDot(s) == \A i \in DOMAIN Split(s) : Split(s)[i] # DotDot

\* The elements of s that name something: not empty and not ".".
Names(s) == SelectSeq(Split(s), LAMBDA e : e \notin {<<>>, Dot})

\* C2: for every storage root, a bucket and key without ".." elements resolve
\* without error to the normalised path root/bucket/key.
C2_ResolveSucceeds ==
    (probe.done /\ NoDotDot(probe.bucket) /\ NoDotDot(probe.key))
        => /\ probe.err = None
           /\ probe.path = PathOf(Elems(AbsRoot) \o Names(probe.bucket) \o Names(probe.key))

\* C3: a PUT, GET or DELETE whose path has an empty bucket, no key or an empty
\* key is answered 400 and makes no filesystem call.
C3_MissingPartsRefused ==
    (req.method \in HandledMethods /\ MissingBucketOrKey(req.path))
        => (resp.status = StatusBadRequest /\ ops = <<>>)

\* C4: a GET that follows a PUT answered 204 for the same path, with only
\* requests other than PUT and DELETE for that path in between, is answered
\* 200 with exactly the body of that PUT.
C4_GetReturnsLastPut ==
    ( /\ req.method = "GET"
      /\ lastWrite.valid
      /\ lastWrite.method = "PUT"
      /\ lastWrite.path = req.path )
    => (resp.status = StatusOK /\ resp.body = lastWrite.body)

\* A GET after a PUT of a non-empty body returned that body.
C4_GotBodyBack ==
    /\ req.method = "GET"
    /\ lastWrite.valid
    /\ lastWrite.method = "PUT"
    /\ lastWrite.path = req.path
    /\ lastWrite.body # <<>>
    /\ resp.status = StatusOK
    /\ resp.body = lastWrite.body

\* C5: a GET that follows a DELETE for the same /<bucket>/<key>, with no PUT
\* in between, is answered 404.
C5_GetAfterDeleteNotFound ==
    ( /\ req.method = "GET"
      /\ PlainPath(req.path)
      /\ lastWrite.valid
      /\ lastWrite.method = "DELETE"
      /\ lastWrite.path = req.path )
    => resp.status = StatusNotFound

\* C6: a DELETE for a /<bucket>/<key> that passes the path check and names no
\* stored object is answered 204.
C6_DeleteMissingNoContent ==
    [][ ( /\ req.method = None
          /\ req'.method = "DELETE"
          /\ PlainPath(req'.path)
          /\ resp'.status # StatusBadRequest
          /\ ~IsFile(fs, ObjectFile(req'.path)) )
        => resp'.status = StatusNoContent ]_vars

\* C7: a request of a method other than PUT, GET and DELETE is answered 405
\* and makes no filesystem call, whatever its path.
C7_OtherMethodNotAllowed ==
    (req.method \in OtherMethods)
        => (resp.status = StatusMethodNotAllowed /\ ops = <<>>)

\* A request of another method whose path the handlers refuse with 400 was
\* answered 405.
C7_BadPathStillNotAllowed ==
    /\ req.method \in OtherMethods
    /\ Resolve(storageRootDir, req.path).err # None
    /\ resp.status = StatusMethodNotAllowed

\* C8: once two concurrent requests for one object have both finished, the
\* object is absent and one of them was a DELETE, or it holds exactly the body
\* of one of the PUTs.
C8_LastOperationWins ==
    (procs # <<>> /\ \A i \in DOMAIN procs : procs[i].pc = "done")
        => \/ cfile.entry = 0 /\ \E i \in DOMAIN procs : procs[i].method = "DELETE"
           \/ /\ cfile.entry # 0
              /\ \E i \in DOMAIN procs :
                    /\ procs[i].method = "PUT"
                    /\ cfile.inodes[cfile.entry] = procs[i].body

\* C9: a PUT for a /<bucket>/<key> whose key holds a further "/" and that
\* passes the path check is answered 204.
C9_NestedPutSucceeds ==
    ( /\ req.method = "PUT"
      /\ NestedKey(req.path)
      /\ resp.status # StatusBadRequest )
    => resp.status = StatusNoContent

\* C10: a request for a /<bucket>/<key> removes no directory.
C10_NoDirectoryRemoved ==
    [][ PlainPath(req'.path)
        => \A q \in DOMAIN fs : IsDir(fs, q) => IsDir(fs', q) ]_vars

====
